---- MODULE Spec2Model ----
(***************************************************************************)
(* yr-data-store: the expiry-driven fetch of a fetchable data store.       *)
(*                                                                         *)
(* The store holds one value per key.  fetch(store, key, url, options)     *)
(* (src/src/lib/methods/fetch.js) answers from the store while the value   *)
(* is fresh and otherwise starts a load through the transport; the load    *)
(* settles later, in a step of its own.  Time is a counter of seconds.     *)
(*                                                                         *)
(* The same store as a tree of keys: get, set and remove                   *)
(* (src/src/lib/methods/remove.js), the read cache, the handlers, the      *)
(* actions, the resolution of references and destroy, each with a          *)
(* specification of its own over the one set of variables.                 *)
(***************************************************************************)
EXTENDS Integers, Sequences, FiniteSets, TLC

\* ------------------------------------------------------------------ bounds
MaxTime == 2      \* Date.now() ranges over 0..MaxTime
MaxCalls == 1     \* fetch calls whose promise is observed at one time
MaxConcurrent == 2  \* fetch calls made before the load of the first settles

\* --------------------------------------------------------------- constants
NoExpires == -1   \* the value has no property named store.EXPIRES_KEY
NoMaxAge == -1    \* the headers carry no cache-control max-age
StatusOk == 200
StatusBadRequest == 400
MaxAgeLimit == 120

Keys == {"foo", "bar"}
FetchedKeys == {"foo"}            \* the keys the callers of Spec fetch
NoKey == ""                       \* a missing (falsy) key argument
Url == "http://localhost/foo"
NoUrl == ""                       \* a missing (falsy) url argument
CallIds == 1 .. MaxCalls

\* ------------------------------------------------------------------ values
\* A stored value: its JavaScript kind, its content, and the two expiry
\* timestamps it carries (NoExpires when it carries none).
Val(k, b, e, eie) == [kind |-> k, body |-> b, expires |-> e, expiresIfError |-> eie]
Undefined == Val("undefined", "", NoExpires, NoExpires)
Null == Val("null", "", NoExpires, NoExpires)

\* JavaScript truthiness of a value: !value is ~Truthy(value)
Truthy(v) ==
  CASE v.kind \in {"undefined", "null"} -> FALSE
    [] v.kind = "number" -> v.body # "0"
    [] v.kind = "boolean" -> v.body = "true"
    [] v.kind = "string" -> v.body # ""
    [] OTHER -> TRUE

isPlainObject(v) == v.kind = "object"

\* The values a store is created with.
SeedValues ==
  { Undefined,
    Val("object", "boo", NoExpires, NoExpires),
    Val("object", "boo", 1, 1),
    Val("object", "boo", 1, 3),
    Val("array", "foo,bar", NoExpires, NoExpires),
    Val("string", "bat", NoExpires, NoExpires),
    Val("number", "0", NoExpires, NoExpires) }

\* ------------------------------------------------------- options, responses
Options ==
  [reload : BOOLEAN, staleWhileRevalidate : BOOLEAN,
   staleIfError : BOOLEAN, rejectOnError : BOOLEAN]

\* the options tried with a call: all of them when key and url are given
CallOptions(key, url) ==
  IF key = NoKey \/ url = NoUrl
  THEN {o \in Options : o.reload = o.staleWhileRevalidate
                         /\ o.reload = o.staleIfError /\ ~o.rejectOnError}
  ELSE Options

NoError == [status |-> 0]
Response(d, err, st, ma, v) ==
  [duration |-> d, error |-> err, headers |-> [status |-> st, maxAge |-> ma], data |-> v]
NoResponse == Response(0, NoError, 0, NoMaxAge, Undefined)

Pending == [state |-> "pending", value |-> NoResponse]
Resolved(r) == [state |-> "resolved", value |-> r]
Rejected(r) == [state |-> "rejected", value |-> r]
NoPromise == [state |-> "none", value |-> NoResponse]

\* What the transport can answer.
Bodies == {"fresh"}
Durations == {7}
MaxAges == {1}
FailureStatuses == {404, 500}
LoadResults ==
  { Response(d, NoError, StatusOk, ma, Val("object", b, NoExpires, NoExpires)) :
      d \in Durations, ma \in MaxAges, b \in Bodies }
LoadErrors == { [status |-> s] : s \in FailureStatuses }

VARIABLES
  data,    \* store._data as fetch sees it: key -> value
  now,     \* Date.now()
  calls    \* call id -> the fetch call made under that id (or a free slot)

VARIABLES
  tree,       \* store._data as get, set and remove see it: a tree of nodes
  writable,   \* store.isWritable
  cache,      \* store._cache: the results of get, by path and referenceDepth
  handlers,   \* store._handlers, in registration order
  actions,    \* store._actions: name -> the action registered under it
  destroyed,  \* store.destroyed
  timers,     \* the reload timers that are scheduled
  resolving,  \* the run of _resolveRefKey in progress
  out         \* the outcome of the last operation on the store

fetchVars == <<data, now, calls>>
storeVars == <<tree, writable, cache, handlers, actions, destroyed, timers, resolving, out>>
vars == <<data, now, calls, tree, writable, cache, handlers, actions, destroyed,
          timers, resolving, out>>

\* How the expiry timestamp of a value stands to Date.now(): the caller's view
\* of the entry at the time of the call.
Age(v) ==
  CASE v.expires = NoExpires -> "none"
    [] v.expires # NoExpires /\ v.expires > now -> "future"
    [] v.expires # NoExpires /\ v.expires = now -> "now"
    [] OTHER -> "past"

\* -------------------------------------------------------------- call records
\* A fetch call: its arguments, the value it read, the load it started (if
\* any), the inner promiseToLoad and the promise handed back to the caller.
NoCall ==
  [key |-> NoKey, url |-> NoUrl,
   options |-> [reload |-> FALSE, staleWhileRevalidate |-> FALSE,
                staleIfError |-> FALSE, rejectOnError |-> FALSE],
   value |-> Undefined, age |-> "none", expired |-> FALSE, waits |-> FALSE,
   load |-> "none", loadRes |-> NoResponse, loadErr |-> NoError,
   promiseToLoad |-> NoPromise, promise |-> NoPromise, reloads |-> 0]

Made(c) == calls[c].promise.state # "none"
Settled(c) == calls[c].promise.state \in {"resolved", "rejected"}
\* a call nobody waits for any more: its promise and its load have settled
Done(c) == (Settled(c) /\ calls[c].load # "pending") \/ calls[c].load = "aborted"

\* The id a new call gets: the first unused one, else the first finished one.
FreeIds == IF \E c \in DOMAIN calls : ~Made(c)
           THEN {c \in DOMAIN calls : ~Made(c)}
           ELSE {c \in DOMAIN calls : Done(c)}
NextId == CHOOSE c \in FreeIds : \A d \in FreeIds : c <= d

\* ------------------------------------------------------------ fetch.js parts
\* get(store, key); without a key it returns the whole tree
Root == Val("object", "store", NoExpires, NoExpires)
get(key) == IF key \in Keys THEN data[key] ELSE Root

\* hasExpired with the comparison turned round
hasExpiredInverted(obj) ==
  /\ Truthy(obj)
  /\ isPlainObject(obj)
  /\ obj.expires # NoExpires
  /\ now < obj.expires

\* hasExpired(obj, expiresKey), read at Date.now() = now
hasExpired(obj) ==
  /\ Truthy(obj)
  /\ isPlainObject(obj)
  /\ obj.expires # NoExpires
  /\ now > obj.expires

\* the check of the value without the check of its expiry
isMissingOnly(value) == ~Truthy(value)
\* const isMissingOrExpired = !value || hasExpired(value, store.EXPIRES_KEY)
isMissingOrExpired(value) == ~Truthy(value) \/ hasExpired(value)

\* the wait decided by the option alone, whether or not a value exists
waitsForLoadIgnoringValue(value, options) == ~options.staleWhileRevalidate

\* if (!(value && staleWhileRevalidate)) return promiseToLoad
waitsForLoad(value, options) == ~(Truthy(value) /\ options.staleWhileRevalidate)

\* Promise.resolve({ duration: 0, headers: { status: 200 }, data: value })
staleResponse(value) == Response(0, NoError, StatusOk, NoMaxAge, value)

\* the response built from the transport's body instead of the stored value
loadedResponseFromBody(res, stored) ==
  Response(res.duration, NoError, res.headers.status, res.headers.maxAge, res.data)

\* resolve({ duration: res.duration, headers: res.headers, data: get(store, key) })
loadedResponse(res, stored) ==
  Response(res.duration, NoError, res.headers.status, res.headers.maxAge, stored)

\* the failure response that never falls back on the stale value
errorResponseWithoutStale(err, options, value) ==
  Response(0, err, err.status, NoMaxAge, Null)

\* resolve({ duration: 0, error: err, headers: { status: err.status },
\*           data: staleIfError ? value : null })
errorResponse(err, options, value) ==
  Response(0, err, err.status, NoMaxAge, IF options.staleIfError THEN value ELSE Null)

\* how the .catch() handler settles promiseToLoad
errorLeavesPending(err, options, value) == Pending
errorSettle(err, options, value) == Resolved(errorResponse(err, options, value))

\* if (shouldReload) reload(...)            (after a successful load)
reloadOnSuccess(options) == options.reload
\* the reload after a failure, whatever its status
reloadOnAnyError(err, options) == options.reload

\* if (err.status >= 500 && shouldReload) reload(...)
reloadOnError(err, options) == err.status >= 500 /\ options.reload

\* what load() leaves at key when the transport answers res
loadedValue(res) ==
  Val("object", res.data.body, now + res.headers.maxAge, now + res.headers.maxAge)

\* the check of the key alone
missingArgumentsKeyOnly(key, url) == key = NoKey

\* the public fetch answers a call without key or url itself
missingArguments(key, url) == key = NoKey \/ url = NoUrl
badRequest == Response(0, NoError, StatusBadRequest, NoMaxAge, Undefined)

\* what an abort leaves of a call: the load is gone, the promises are untouched
abortedCall(call) == [call EXCEPT !.load = "aborted"]

\* ----------------------------------------------------------- the data tree
\* A path is a sequence of segments.  The tree has two levels: a node at each
\* top-level key, and under a node that is a mapping a leaf at each child key.
\* A node or leaf is absent, undefined, a string, a reference or (a node only)
\* a mapping; val holds the string, or the path a reference points to.
TreeKeys == {"a", "b"}
Leaf(k, v) == [kind |-> k, val |-> v]
AbsentLeaf == Leaf("absent", <<>>)
UndefinedLeaf == Leaf("undefined", <<>>)
NoKids == [k \in TreeKeys |-> AbsentLeaf]
Node(k, v, kids) == [kind |-> k, val |-> v, kids |-> kids]
AbsentNode == Node("absent", <<>>, NoKids)
Lift(leaf) == Node(leaf.kind, leaf.val, NoKids)
Mapping(kids) == Node("object", <<>>, kids)

\* the value at a path, references not followed (undefined reads as absent)
Lookup(t, path) ==
  CASE Len(path) = 1 /\ path[1] \in TreeKeys -> t[path[1]]
    [] Len(path) = 2 /\ path[1] \in TreeKeys /\ path[2] \in TreeKeys
         /\ t[path[1]].kind = "object" -> Lift(t[path[1]].kids[path[2]])
    [] OTHER -> AbsentNode

\* JavaScript truthiness of a node (the strings of the tree are non-empty)
TruthyNode(n) == n.kind \in {"string", "ref", "object"}

\* k in data: data is a mapping that has the key (with whatever value)
HasKey(n, k) == n.kind = "object" /\ k \in TreeKeys /\ n.kids[k].kind # "absent"

\* the tree with leaf written at path, the mapping above it created if needed
Write(t, path, leaf) ==
  CASE Len(path) = 1 /\ path[1] \in TreeKeys ->
         [t EXCEPT ![path[1]] = Lift(leaf)]
    [] Len(path) = 2 /\ path[1] \in TreeKeys /\ path[2] \in TreeKeys ->
         [t EXCEPT ![path[1]] =
            Mapping([(IF @.kind = "object" THEN @.kids ELSE NoKids)
                       EXCEPT ![path[2]] = leaf])]
    [] OTHER -> t

\* _resolveRefKey(key): walk the segments from the left; where the segments so
\* far address a reference, put the path it points to in their place and start
\* again; give up as cyclic after MaxResolve replacements.
MaxResolve == 4
\* a resolution: the key asked for, the path so far, the segment looked at and
\* the replacements made
Resolving(state, key, path, i, n) ==
  [state |-> state, key |-> key, path |-> path, i |-> i, n |-> n]
NotResolving == Resolving("idle", <<>>, <<>>, 0, 0)
resolveStart(key) == Resolving("running", key, key, 1, 0)
\* one turn of the loop, never giving up
resolveStepUncounted(t, s) ==
  IF s.i > Len(s.path) THEN [s EXCEPT !.state = "done"]
  ELSE LET v == Lookup(t, SubSeq(s.path, 1, s.i))
       IN IF v.kind # "ref" THEN [s EXCEPT !.i = s.i + 1]
          ELSE [s EXCEPT !.path = v.val \o SubSeq(s.path, s.i + 1, Len(s.path)),
                         !.i = 1]
\* one turn of the loop
resolveStep(t, s) ==
  IF s.i > Len(s.path) THEN [s EXCEPT !.state = "done"]
  ELSE LET v == Lookup(t, SubSeq(s.path, 1, s.i))
       IN IF v.kind # "ref" THEN [s EXCEPT !.i = s.i + 1]
          ELSE IF s.n = MaxResolve THEN [s EXCEPT !.state = "cyclic"]
          ELSE [s EXCEPT !.path = v.val \o SubSeq(s.path, s.i + 1, Len(s.path)),
                         !.i = 1, !.n = s.n + 1]
RECURSIVE resolveRun(_, _)
resolveRun(t, s) == IF s.state # "running" THEN s ELSE resolveRun(t, resolveStep(t, s))
resolveRefKey(t, path) ==
  LET s == resolveRun(t, resolveStart(path))
  IN [ok |-> s.state = "done", path |-> s.path]

\* the node get(store, key, { referenceDepth: 0 }) reads
getNode(t, path) ==
  LET r == resolveRefKey(t, path)
  IN IF r.ok THEN Lookup(t, r.path) ELSE AbsentNode

\* a mapping read out as one value: its properties in the order of TreeKeys
Flatten(n) ==
  <<"a:", n.kids["a"].kind>> \o n.kids["a"].val
    \o <<"b:", n.kids["b"].kind>> \o n.kids["b"].val
\* a reference found in a mapping, replaced by the value it points to
expandLeaf(t, leaf) ==
  IF leaf.kind # "ref" THEN leaf
  ELSE LET n == getNode(t, leaf.val)
       IN IF n.kind = "object" THEN Leaf("object", Flatten(n)) ELSE Leaf(n.kind, n.val)
\* get(store, key, { referenceDepth }): the value at the resolved key, with the
\* references in it replaced when referenceDepth is 1
getValue(t, path, depth) ==
  LET r == resolveRefKey(t, path)
      n == Lookup(t, r.path)
  IN IF ~r.ok THEN [value |-> AbsentNode, threw |-> "CyclicReference"]
     ELSE IF depth = 0 \/ n.kind # "object" THEN [value |-> n, threw |-> "none"]
     ELSE [value |-> Mapping([k \in TreeKeys |-> expandLeaf(t, n.kids[k])]),
           threw |-> "none"]

\* the read cache: one entry for a key and a referenceDepth
Entry(path, depth, value) == [path |-> path, depth |-> depth, value |-> value]
Cached(c, path, depth) == {e \in c : e.path = path /\ e.depth = depth}
\* setWriteable(value): the cache afterwards
keptCache(value, c) == c
clearedCache(value, c) == IF value THEN {} ELSE c

\* handlers: each registered with an id (the function) and a pattern ("" for
\* none); a handler matching the key of a set puts its mark on context.value
Handler(id, pattern, batch) == [id |-> id, pattern |-> pattern, batch |-> batch]
matches(h, path) == h.pattern = "" \/ \E i \in 1 .. Len(path) : path[i] = h.pattern
handle(h, leaf) == Leaf("string", leaf.val \o <<h.id>>)
RECURSIVE runHandlersFrom(_, _, _, _)
runHandlersFrom(hs, i, path, leaf) ==
  IF i > Len(hs) THEN leaf
  ELSE runHandlersFrom(hs, i + 1, path,
                       IF matches(hs[i], path) THEN handle(hs[i], leaf) ELSE leaf)
runHandlersMatchingOnly(hs, path, leaf) ==
  runHandlersFrom(SelectSeq(hs, LAMBDA h : h.pattern # ""), 1, path, leaf)
runHandlers(hs, path, leaf) == runHandlersFrom(hs, 1, path, leaf)

\* set(store, key, value): nothing without a key, an error when the store is
\* not writable, else the value written at the resolved key
setTreeUnguarded(t, w, path, leaf) ==
  IF path = <<>> THEN [tree |-> t, threw |-> "none"]
  ELSE LET r == resolveRefKey(t, path)
       IN IF r.ok THEN [tree |-> Write(t, r.path, leaf), threw |-> "none"]
          ELSE [tree |-> t, threw |-> "CyclicReference"]
setTree(t, w, path, leaf) ==
  IF path = <<>> THEN [tree |-> t, threw |-> "none"]
  ELSE IF ~w THEN [tree |-> t, threw |-> "NotWritable"]
  ELSE LET r == resolveRefKey(t, path)
       IN IF r.ok THEN [tree |-> Write(t, r.path, leaf), threw |-> "none"]
          ELSE [tree |-> t, threw |-> "CyclicReference"]

\* the handlers useHandler(pattern, fn) and useHandler(batch) register, and
\* what unuseHandler(fn) and unuseHandler(batch) leave
Batch == <<Handler("p", "", TRUE), Handler("q", "b", TRUE)>>
Registered(hs, id) == \E i \in 1 .. Len(hs) : hs[i].id = id
withoutHandler(hs, id) == SelectSeq(hs, LAMBDA h : h.id # id)
withoutBatch(hs) == SelectSeq(hs, LAMBDA h : ~h.batch)

\* actions: the function registered under a name stores its argument at the
\* key of that name and returns it
NotRegistered(name) == Node("error", <<"action", name, "not registered">>, NoKids)
boundAlways(acts, name) == TRUE
bound(acts, name) == name \in acts
\* trigger(name, arg)
triggerResult(acts, t, w, hs, name, arg) ==
  IF ~bound(acts, name)
  THEN [tree |-> t, threw |-> "rejected", value |-> NotRegistered(name)]
  ELSE LET r == setTree(t, w, <<name>>, runHandlers(hs, <<name>>, arg))
       IN [tree |-> r.tree, threw |-> r.threw,
           value |-> IF r.threw = "none" THEN Lift(arg) ELSE AbsentNode]

\* ------------------------------------------------------------- remove.js
\* const k = (length == 1) ? key : keys.last(key)
removeKey(path) == <<path[Len(path)]>>
\* keys.slice(key, 0, -1)
removeParent(path) == SubSeq(path, 1, Len(path) - 1)
\* data: store._data for a key of one segment, else the value at the parent
\* data && k in data: true, false, or a TypeError when data is a string
removeFinds(t, path) ==
  IF Len(path) = 1
  THEN IF path[1] \in TreeKeys /\ t[path[1]].kind # "absent" THEN "yes" ELSE "no"
  ELSE LET parent == getNode(t, removeParent(path))
       IN CASE ~TruthyNode(parent) -> "no"
            [] parent.kind = "object" ->
                 IF HasKey(parent, path[Len(path)]) THEN "yes" ELSE "no"
            [] OTHER -> "TypeError"
\* remove(store, key)
removeTree(t, w, path) ==
  CASE removeFinds(t, path) = "yes" -> setTree(t, w, removeKey(path), UndefinedLeaf)
    [] removeFinds(t, path) = "no" -> [tree |-> t, threw |-> "none"]
    [] OTHER -> [tree |-> t, threw |-> "TypeError"]

\* the outcome of an operation: what it was called with, what it threw (or
\* "none") and what it returned
Out(op, path, threw, value) == [op |-> op, path |-> path, threw |-> threw, value |-> value]
NoOut == Out("none", <<>>, "none", AbsentNode)

\* the store as created, before any of its parts is used
InitParts ==
  /\ writable = TRUE
  /\ cache = {}
  /\ handlers = <<>>
  /\ actions = {}
  /\ destroyed = FALSE
  /\ timers = {}
  /\ resolving = NotResolving
  /\ out = NoOut
InitStore ==
  /\ tree = [k \in TreeKeys |-> AbsentNode]
  /\ InitParts

\* a store on which fetch is never called
IdleFetch ==
  /\ data = [key \in Keys |-> Undefined]
  /\ now = 0
  /\ calls = [c \in CallIds |-> NoCall]

\* reload(store, key, url, options): a reload of key scheduled, unless the
\* store is destroyed
scheduled(ts, d, key, called) == IF called /\ ~d THEN ts \cup {key} ELSE ts
\* destroy(): the reloads scheduled, cancelled
keptTimers(ts) == ts
cancelledTimers(ts) == {}
\* what fetch leaves alone in the store
fetchLeaves == <<tree, writable, cache, handlers, actions, destroyed, resolving, out>>

\* ------------------------------------------------------------------ actions
\* createStore(id, data, { isFetchable: true }): what fetch works on
InitFetch ==
  /\ data \in [Keys -> SeedValues]
  /\ \A key \in Keys \ FetchedKeys : data[key] = Undefined
  /\ now = 0
  /\ calls = [c \in CallIds |-> NoCall]

Init ==
  /\ InitFetch
  /\ InitStore

\* Date.now() advances
Tick ==
  /\ now < MaxTime
  /\ now' = now + 1
  /\ UNCHANGED <<data, calls>>
  /\ UNCHANGED storeVars

\* store.fetch(key, url, options) without a key or without a url
FetchBadRequest(key, url, options) ==
  /\ FreeIds # {}
  /\ missingArguments(key, url)
  /\ calls' = [calls EXCEPT ![NextId] =
       [NoCall EXCEPT !.key = key, !.url = url, !.options = options,
                      !.promise = Resolved(badRequest)]]
  /\ UNCHANGED <<data, now>>
  /\ UNCHANGED storeVars

\* fetch(store, key, url, options)
fetch(key, url, options) ==
  /\ FreeIds # {}
  /\ ~missingArguments(key, url)
  /\ LET value == get(key)
         expired == isMissingOrExpired(value)
         waits == expired /\ waitsForLoad(value, options)
     IN calls' = [calls EXCEPT ![NextId] =
          [key |-> key, url |-> url, options |-> options,
           value |-> value, age |-> Age(value), expired |-> expired, waits |-> waits,
           load |-> IF expired THEN "pending" ELSE "none",
           loadRes |-> NoResponse, loadErr |-> NoError,
           promiseToLoad |-> IF expired THEN Pending ELSE NoPromise,
           promise |-> IF waits THEN Pending ELSE Resolved(staleResponse(value)),
           reloads |-> IF ~waits /\ options.reload THEN 1 ELSE 0]]
  /\ UNCHANGED <<data, now>>

\* the load of call c succeeds: load() stores the body, then fetch's .then()
loadThen(c, res) ==
  /\ calls[c].load = "pending"
  /\ data' = [k \in Keys |-> IF k = calls[c].key /\ ~destroyed
                              THEN loadedValue(res) ELSE data[k]]
  /\ LET call == calls[c]
         settled == Resolved(loadedResponse(res, data'[call.key]))
     IN calls' = [calls EXCEPT ![c] =
          [call EXCEPT !.load = "resolved", !.loadRes = res,
                       !.reloads = @ + (IF reloadOnSuccess(call.options) THEN 1 ELSE 0),
                       !.promiseToLoad = settled,
                       !.promise = IF call.waits THEN settled ELSE @]]
  /\ UNCHANGED now

\* the load of call c fails with err: fetch's .catch()
loadCatch(c, err) ==
  /\ calls[c].load = "pending"
  /\ LET call == calls[c]
         settled == errorSettle(err, call.options, call.value)
     IN calls' = [calls EXCEPT ![c] =
          [call EXCEPT !.load = "rejected", !.loadErr = err,
                       !.reloads = @ + (IF reloadOnError(err, call.options) THEN 1 ELSE 0),
                       !.promiseToLoad = settled,
                       !.promise = IF call.waits THEN settled ELSE @]]
  /\ UNCHANGED <<data, now>>

\* the load of call c is aborted (agent.abortAll(), options.abort): the
\* transport settles it neither way, so neither handler of fetch ever runs
Abort(c) ==
  /\ calls[c].load = "pending"
  /\ calls' = [calls EXCEPT ![c] = abortedCall(calls[c])]
  /\ UNCHANGED <<data, now>>
  /\ UNCHANGED storeVars

\* fetch and the settlement of its load, on a store that is not destroyed and
\* whose reload timers are not looked at
Fetch(key, url, options) == fetch(key, url, options) /\ UNCHANGED storeVars
LoadThen(c, res) == loadThen(c, res) /\ UNCHANGED storeVars
LoadCatch(c, err) == loadCatch(c, err) /\ UNCHANGED storeVars

Next ==
  \/ Tick
  \/ \E key \in FetchedKeys \cup {NoKey}, url \in {Url, NoUrl} :
       \E options \in CallOptions(key, url) : FetchBadRequest(key, url, options)
  \/ \E key \in FetchedKeys \cup {NoKey}, url \in {Url, NoUrl} :
       \E options \in CallOptions(key, url) : Fetch(key, url, options)
  \/ \E c \in CallIds, res \in LoadResults : LoadThen(c, res)
  \/ \E c \in CallIds, err \in LoadErrors : LoadCatch(c, err)

Spec == Init /\ [][Next]_vars

\* the same with loads that may be aborted, on a key that is missing or holds
\* a value that expires
AbortSeeds == {Undefined, Val("object", "boo", 1, 3)}
InitAbort ==
  /\ Init
  /\ \A key \in FetchedKeys : data[key] \in AbortSeeds
NextAbort ==
  \/ Next
  \/ \E c \in CallIds : Abort(c)

SpecAbort == InitAbort /\ [][NextAbort]_vars

\* ------------------------------------------------------ actions on the tree
\* the trees a store is created with: no references
PlainLeaves == {AbsentLeaf, UndefinedLeaf, Leaf("string", <<"x">>)}
PlainNodes ==
  {AbsentNode, Lift(UndefinedLeaf), Lift(Leaf("string", <<"bat">>))}
    \cup {Mapping(kids) : kids \in [TreeKeys -> PlainLeaves]}
Paths == {<<k>> : k \in TreeKeys} \cup {<<k, l>> : k \in TreeKeys, l \in TreeKeys}
Written == {UndefinedLeaf, Leaf("string", <<"y">>)}

InitTree ==
  /\ IdleFetch
  /\ InitParts
  /\ tree \in [TreeKeys -> PlainNodes]

\* store.remove(key)
Remove(path) ==
  /\ LET r == removeTree(tree, writable, path)
     IN /\ tree' = r.tree
        /\ out' = Out("remove", path, r.threw, AbsentNode)
  /\ UNCHANGED <<writable, cache, handlers, actions, destroyed, timers, resolving>>
  /\ UNCHANGED fetchVars

\* store.set(key, value)
Set(path, leaf) ==
  /\ LET r == setTree(tree, writable, path, runHandlers(handlers, path, leaf))
     IN /\ tree' = r.tree
        /\ out' = Out("set", path, r.threw, Lift(leaf))
  /\ UNCHANGED <<writable, cache, handlers, actions, destroyed, timers, resolving>>
  /\ UNCHANGED fetchVars

\* store.setWriteable(value)
SetWriteable(value) ==
  /\ writable' = value
  /\ cache' = clearedCache(value, cache)
  /\ out' = Out("setWriteable", <<>>, "none", AbsentNode)
  /\ UNCHANGED <<tree, handlers, actions, destroyed, timers, resolving>>
  /\ UNCHANGED fetchVars

\* store.get(key, { referenceDepth })
Get(path, depth) ==
  /\ IF ~writable /\ Cached(cache, path, depth) # {}
     THEN /\ out' = Out("get", path, "none",
                        (CHOOSE e \in Cached(cache, path, depth) : TRUE).value)
          /\ cache' = cache
     ELSE LET r == getValue(tree, path, depth)
          IN /\ out' = Out("get", path, r.threw, r.value)
             /\ cache' = IF ~writable /\ r.threw = "none"
                         THEN cache \cup {Entry(path, depth, r.value)}
                         ELSE cache
  /\ UNCHANGED <<tree, writable, handlers, actions, destroyed, timers, resolving>>
  /\ UNCHANGED fetchVars

NextRemove ==
  \/ \E path \in Paths : Remove(path)
  \/ \E path \in Paths, leaf \in Written : Set(path, leaf)
  \/ \E value \in BOOLEAN : SetWriteable(value)

SpecRemove == InitTree /\ [][NextRemove]_vars

\* store.useHandler(pattern, fn), store.useHandler(fn): fn not registered yet
UseHandler(id, pattern) ==
  /\ ~Registered(handlers, id)
  /\ handlers' = Append(handlers, Handler(id, pattern, FALSE))
  /\ out' = Out("useHandler", <<id>>, "none", AbsentNode)
  /\ UNCHANGED <<tree, writable, cache, actions, destroyed, timers, resolving>>
  /\ UNCHANGED fetchVars

\* store.useHandler(batch)
UseHandlerBatch ==
  /\ \A i \in 1 .. Len(Batch) : ~Registered(handlers, Batch[i].id)
  /\ handlers' = handlers \o Batch
  /\ out' = Out("useHandler", <<"batch">>, "none", AbsentNode)
  /\ UNCHANGED <<tree, writable, cache, actions, destroyed, timers, resolving>>
  /\ UNCHANGED fetchVars

\* store.unuseHandler(fn)
UnuseHandler(id) ==
  /\ handlers' = withoutHandler(handlers, id)
  /\ out' = Out("unuseHandler", <<id>>, "none", AbsentNode)
  /\ UNCHANGED <<tree, writable, cache, actions, destroyed, timers, resolving>>
  /\ UNCHANGED fetchVars

\* store.unuseHandler(batch)
UnuseHandlerBatch ==
  /\ handlers' = withoutBatch(handlers)
  /\ out' = Out("unuseHandler", <<"batch">>, "none", AbsentNode)
  /\ UNCHANGED <<tree, writable, cache, actions, destroyed, timers, resolving>>
  /\ UNCHANGED fetchVars

HandlerIds == {"f", "g"}
Patterns == {"", "a"}
HandledValues == {Leaf("string", <<"y">>)}
HandledPaths == {<<"a">>, <<"a", "b">>}
InitHandlers == IdleFetch /\ InitStore
NextHandlers ==
  \/ \E id \in HandlerIds, pattern \in Patterns : UseHandler(id, pattern)
  \/ UseHandlerBatch
  \/ \E id \in HandlerIds : UnuseHandler(id)
  \/ UnuseHandlerBatch
  \/ \E path \in HandledPaths, leaf \in HandledValues : Set(path, leaf)

SpecHandlers == InitHandlers /\ [][NextHandlers]_vars

\* store.registerAction(name, fn)
RegisterAction(name) ==
  /\ actions' = actions \cup {name}
  /\ out' = Out("registerAction", <<name>>, "none", AbsentNode)
  /\ UNCHANGED <<tree, writable, cache, handlers, destroyed, timers, resolving>>
  /\ UNCHANGED fetchVars

\* store.unregisterAction(name)
UnregisterAction(name) ==
  /\ actions' = actions \ {name}
  /\ out' = Out("unregisterAction", <<name>>, "none", AbsentNode)
  /\ UNCHANGED <<tree, writable, cache, handlers, destroyed, timers, resolving>>
  /\ UNCHANGED fetchVars

\* store.trigger(name, arg), to the settlement of its promise
Trigger(name, arg) ==
  /\ LET r == triggerResult(actions, tree, writable, handlers, name, arg)
     IN /\ tree' = r.tree
        /\ out' = Out("trigger", <<name>>, r.threw, r.value)
  /\ UNCHANGED <<writable, cache, handlers, actions, destroyed, timers, resolving>>
  /\ UNCHANGED fetchVars

ActionNames == TreeKeys
Args == {Leaf("string", <<"arg">>), Leaf("string", <<"other">>)}
NextActions ==
  \/ \E name \in ActionNames : RegisterAction(name)
  \/ \E name \in ActionNames : UnregisterAction(name)
  \/ \E name \in ActionNames, arg \in Args : Trigger(name, arg)

SpecActions == InitTree /\ [][NextActions]_vars

\* the trees with cycles of references
CyclicLeaves == {Leaf("string", <<"x">>), Leaf("ref", <<"a">>), Leaf("ref", <<"b">>)}
CyclicNodes == {Lift(leaf) : leaf \in CyclicLeaves}
                 \cup {Mapping(kids) : kids \in [TreeKeys -> CyclicLeaves]}
InitCyclic ==
  /\ IdleFetch
  /\ InitParts
  /\ tree \in [TreeKeys -> CyclicNodes]

\* store._resolveRefKey(key) is called
ResolveStart(key) ==
  /\ resolving.state # "running"
  /\ resolving' = resolveStart(key)
  /\ out' = Out("resolveRefKey", key, "none", AbsentNode)
  /\ UNCHANGED <<tree, writable, cache, handlers, actions, destroyed, timers>>
  /\ UNCHANGED fetchVars

\* one turn of its loop; the last one returns the path or throws
ResolveStep ==
  /\ resolving.state = "running"
  /\ resolving' = resolveStep(tree, resolving)
  /\ out' = CASE resolving'.state = "done" ->
                  Out("resolveRefKey", resolving.key, "none",
                      Node("path", resolving'.path, NoKids))
             [] resolving'.state = "cyclic" ->
                  Out("resolveRefKey", resolving.key, "CyclicReference", AbsentNode)
             [] OTHER -> out
  /\ UNCHANGED <<tree, writable, cache, handlers, actions, destroyed, timers>>
  /\ UNCHANGED fetchVars

NextResolve ==
  \/ \E key \in Paths : ResolveStart(key)
  \/ ResolveStep

\* the loop, once entered, keeps running
SpecResolve == InitCyclic /\ [][NextResolve]_vars /\ WF_vars(ResolveStep)

\* the trees with references: a mapping at a whose properties point elsewhere
RefLeaves == {Leaf("string", <<"x">>), Leaf("ref", <<"b">>), Leaf("ref", <<"a", "a">>)}
RefNodes == {Lift(Leaf("string", <<"bat">>)), Lift(Leaf("ref", <<"a">>)),
             Mapping([NoKids EXCEPT !["a"] = Leaf("string", <<"z">>)])}
InitRefs ==
  /\ IdleFetch
  /\ InitParts
  /\ \E ka \in RefLeaves, kb \in RefLeaves, nb \in RefNodes :
       tree = [k \in TreeKeys |->
                 IF k = "a" THEN Mapping([l \in TreeKeys |-> IF l = "a" THEN ka ELSE kb])
                 ELSE nb]

Depths == {0, 1}
ReadPaths == {<<"a">>, <<"a", "b">>}
SetPaths == {<<>>, <<"b">>, <<"a", "b">>}
NextCache ==
  \/ \E path \in ReadPaths, depth \in Depths : Get(path, depth)
  \/ \E path \in SetPaths, leaf \in Written : Set(path, leaf)
  \/ \E value \in BOOLEAN : SetWriteable(value)

SpecCache == InitRefs /\ [][NextCache]_vars

\* ------------------------------------------------------- concurrent fetches
\* callers that fetch either key, again before an earlier load has settled;
\* the keys are missing or hold a value that has expired
ConcurrentIds == 1 .. MaxConcurrent
ConcurrentSeeds == {Undefined, Val("object", "boo", 1, 1)}
ConcurrentOptions ==
  {o \in Options : ~o.reload /\ ~o.staleIfError /\ ~o.rejectOnError}
InitConcurrent ==
  /\ data \in [Keys -> ConcurrentSeeds]
  /\ now = MaxTime
  /\ calls = [c \in ConcurrentIds |-> NoCall]
  /\ InitStore
NextConcurrent ==
  \/ \E key \in Keys, options \in ConcurrentOptions : Fetch(key, Url, options)
  \/ \E c \in ConcurrentIds, res \in LoadResults : LoadThen(c, res)
  \/ \E c \in ConcurrentIds, err \in LoadErrors : LoadCatch(c, err)

SpecConcurrent == InitConcurrent /\ [][NextConcurrent]_vars

\* ------------------------------------------------- fetch, reload and destroy
\* fetch and the settlement of its load, on a store that may be destroyed by
\* then: reload() schedules the reload of the key
FetchOnStore(key, url, options) ==
  /\ ~destroyed
  /\ fetch(key, url, options)
  /\ timers' = scheduled(timers, destroyed, key, calls'[NextId].reloads = 1)
  /\ UNCHANGED fetchLeaves

LoadThenOnStore(c, res) ==
  /\ loadThen(c, res)
  /\ timers' = scheduled(timers, destroyed, calls[c].key, reloadOnSuccess(calls[c].options))
  /\ UNCHANGED fetchLeaves

LoadCatchOnStore(c, err) ==
  /\ loadCatch(c, err)
  /\ timers' = scheduled(timers, destroyed, calls[c].key, reloadOnError(err, calls[c].options))
  /\ UNCHANGED fetchLeaves

\* the timer of a scheduled reload fires: the key is loaded and stored again
ReloadFire(key, res) ==
  /\ key \in timers
  /\ data' = [k \in Keys |-> IF k = key THEN loadedValue(res) ELSE data[k]]
  /\ out' = Out("reload", <<key>>, "none", AbsentNode)
  /\ UNCHANGED <<now, calls>>
  /\ UNCHANGED <<tree, writable, cache, handlers, actions, destroyed, timers, resolving>>

\* store.destroy()
Destroy ==
  /\ ~destroyed
  /\ destroyed' = TRUE
  /\ data' = [key \in Keys |-> Undefined]
  /\ tree' = [k \in TreeKeys |-> AbsentNode]
  /\ cache' = {}
  /\ handlers' = <<>>
  /\ actions' = {}
  /\ timers' = cancelledTimers(timers)
  /\ out' = Out("destroy", <<>>, "none", AbsentNode)
  /\ UNCHANGED <<now, calls, writable, resolving>>

\* a store with a value at a, and nothing at the key fetched
InitDestroy ==
  /\ IdleFetch
  /\ InitParts
  /\ tree = [k \in TreeKeys |-> IF k = "a" THEN Lift(Leaf("string", <<"bat">>))
                                 ELSE AbsentNode]

ReloadOptions == {o \in Options : ~o.staleWhileRevalidate /\ ~o.staleIfError /\ ~o.rejectOnError}
NextDestroy ==
  \/ \E key \in FetchedKeys, options \in ReloadOptions : FetchOnStore(key, Url, options)
  \/ \E c \in CallIds, res \in LoadResults : LoadThenOnStore(c, res)
  \/ \E c \in CallIds, err \in LoadErrors : LoadCatchOnStore(c, err)
  \/ \E key \in FetchedKeys, res \in LoadResults : ReloadFire(key, res)
  \/ Destroy
  \/ ~destroyed /\ RegisterAction("a")
  \/ ~destroyed /\ UseHandler("f", "")
  \/ ~destroyed /\ SetWriteable(FALSE)
  \/ ~destroyed /\ Get(<<"a">>, 1)

SpecDestroy == InitDestroy /\ [][NextDestroy]_vars

\* ------------------------------------------------------------------- claims
\* a call that reached fetch(store, key, url, options)
Fetched(c) == Made(c) /\ calls[c].key # NoKey /\ calls[c].url # NoUrl

\* C1: a fetch of a key whose value is present and whose expires lies in the
\* future starts no load, whatever the options, and is resolved at once with
\* { duration: 0, headers: { status: 200 }, data: the stored value }.
FreshNeverLoads ==
  \A c \in CallIds :
    (Fetched(c) /\ Truthy(calls[c].value) /\ calls[c].age = "future") =>
      /\ calls[c].load = "none"
      /\ calls[c].promiseToLoad = NoPromise
      /\ calls[c].promise =
           Resolved(Response(0, NoError, StatusOk, NoMaxAge, calls[c].value))

FreshNeverLoadsWitness ==
  \E c \in CallIds :
    /\ Fetched(c) /\ Truthy(calls[c].value) /\ calls[c].age = "future"
    /\ calls[c].options.reload /\ calls[c].options.staleWhileRevalidate
    /\ calls[c].promise.state = "resolved"
    /\ calls[c].promise.value.data = calls[c].value

\* C2 (as claimed): a value whose expires is <= now, the boundary expires = now
\* included, is stale: fetch starts a load for it.
StaleAtOrAfterExpiresLoads ==
  \A c \in CallIds :
    (Fetched(c) /\ Truthy(calls[c].value) /\ calls[c].age \in {"now", "past"}) =>
      calls[c].load # "none"

\* C3 (as claimed): a value of any kind that is present at the key and carries
\* no expiry is always fresh: fetch answers with it, status 200, and starts no
\* load.
NoExpiryAlwaysFresh ==
  \A c \in CallIds :
    (Fetched(c) /\ calls[c].value.kind # "undefined"
       /\ calls[c].value.expires = NoExpires) =>
      /\ calls[c].load = "none"
      /\ calls[c].promise =
           Resolved(Response(0, NoError, StatusOk, NoMaxAge, calls[c].value))

\* C4: a fetch without key or without url is resolved at once with status 400
\* and no data, and starts neither a load nor a reload.
MissingArgumentsBadRequest ==
  \A c \in CallIds :
    (Made(c) /\ (calls[c].key = NoKey \/ calls[c].url = NoUrl)) =>
      /\ calls[c].promise =
           Resolved(Response(0, NoError, StatusBadRequest, NoMaxAge, Undefined))
      /\ calls[c].load = "none"
      /\ calls[c].reloads = 0

MissingArgumentsBadRequestWitness ==
  \E c \in CallIds :
    /\ Made(c) /\ calls[c].key # NoKey /\ calls[c].url = NoUrl
    /\ ~Truthy(data[calls[c].key])
    /\ calls[c].promise.value.headers.status = StatusBadRequest

FailureRejectsOnRequest ==
  \A c \in CallIds :
    (Fetched(c) /\ calls[c].load = "rejected" /\ calls[c].options.rejectOnError) =>
      /\ calls[c].promise.state = "rejected"
      /\ calls[c].promise.value.error = calls[c].loadErr

\* the step in which the load of call c fails
LoadFails(c) == calls[c].load = "pending" /\ calls'[c].load = "rejected"
\* the step in which the load of call c succeeds
LoadSucceeds(c) == calls[c].load = "pending" /\ calls'[c].load = "resolved"

\* C7 (as claimed): for a stale value, a load failing with a 5xx status and
\* rejectOnError false, fetch resolves with the stale value and status 200 if
\* expiresIfError is still in the future when the load fails, and with empty
\* data and the failure's status if it is not.  (Stated for the calls that
\* wait for the load.)
StaleIfErrorDecidedByExpiry ==
  [][\A c \in CallIds :
       (/\ LoadFails(c) /\ Fetched(c)
        /\ Truthy(calls[c].value) /\ calls[c].age = "past"
        /\ calls'[c].loadErr.status >= 500
        /\ ~calls[c].options.rejectOnError
        /\ ~calls[c].options.staleWhileRevalidate) =>
         IF calls[c].value.expiresIfError > now
         THEN /\ calls'[c].promise.state = "resolved"
              /\ calls'[c].promise.value.data = calls[c].value
              /\ calls'[c].promise.value.headers.status = StatusOk
         ELSE /\ calls'[c].promise.state = "resolved"
              /\ calls'[c].promise.value.data \in {Null, Undefined}
              /\ calls'[c].promise.value.headers.status = calls'[c].loadErr.status]_vars

\* C8 (as claimed): when a failed load is answered with the stale value, the
\* advertised max-age is the time left until expiresIfError, and 120 when more
\* than 120 is left.  (Stated for the 5xx failures of the calls that wait for
\* the load.)
StaleMaxAgeCapped ==
  [][\A c \in CallIds :
       (/\ LoadFails(c) /\ Fetched(c)
        /\ Truthy(calls[c].value) /\ calls[c].age = "past"
        /\ calls[c].value.expiresIfError > now
        /\ calls'[c].loadErr.status >= 500
        /\ calls'[c].promise.state = "resolved"
        /\ calls'[c].promise.value.data = calls[c].value
        /\ ~calls[c].options.staleWhileRevalidate) =>
         calls'[c].promise.value.headers.maxAge =
           IF calls[c].value.expiresIfError - now <= MaxAgeLimit
           THEN calls[c].value.expiresIfError - now
           ELSE MaxAgeLimit]_vars

\* C9: with a stale value and staleWhileRevalidate, fetch starts the load and
\* is resolved with the stale value (status 200, duration 0) while the load is
\* pending and after it has succeeded or failed; without a value the option
\* changes nothing and the promise stays pending as long as the load is.
StaleWhileRevalidate ==
  \A c \in CallIds :
    /\ (Fetched(c) /\ Truthy(calls[c].value) /\ calls[c].age = "past"
          /\ calls[c].options.staleWhileRevalidate) =>
         /\ calls[c].load # "none"
         /\ calls[c].promise =
              Resolved(Response(0, NoError, StatusOk, NoMaxAge, calls[c].value))
    /\ (Fetched(c) /\ calls[c].value = Undefined) =>
         /\ calls[c].load # "none"
         /\ calls[c].load \in {"pending", "aborted"} <=> calls[c].promise.state = "pending"

StaleWhileRevalidateWitness ==
  \E c \in CallIds :
    /\ Fetched(c) /\ Truthy(calls[c].value) /\ calls[c].age = "past"
    /\ calls[c].options.staleWhileRevalidate
    /\ calls[c].load = "rejected"
    /\ calls[c].promise.value.data = calls[c].value
    /\ calls[c].promise.value.headers.status = StatusOk

\* C10 (as claimed): when the load succeeds, fetch resolves with the load's
\* duration and headers and with the value read from the store after the load
\* has written it; a reload is scheduled by the call iff options.reload is set.
SuccessResolvesWithStored ==
  [][\A c \in CallIds :
       (LoadSucceeds(c) /\ Fetched(c)) =>
         /\ calls'[c].promise =
              Resolved(Response(calls'[c].loadRes.duration, NoError,
                                calls'[c].loadRes.headers.status,
                                calls'[c].loadRes.headers.maxAge,
                                data'[calls[c].key]))
         /\ data'[calls[c].key].body = calls'[c].loadRes.data.body
         /\ calls[c].options.reload <=> calls'[c].reloads > 0]_vars

\* C10 (amended): the same, unless a value existed and staleWhileRevalidate is
\* set: the promise returned was then resolved with the stale value before the
\* load succeeded, and stays so.
SuccessResolvesWithStoredUnlessRevalidating ==
  [][\A c \in CallIds :
       (LoadSucceeds(c) /\ Fetched(c)) =>
         /\ calls'[c].promise =
              IF Truthy(calls[c].value) /\ calls[c].options.staleWhileRevalidate
              THEN Resolved(Response(0, NoError, StatusOk, NoMaxAge, calls[c].value))
              ELSE Resolved(Response(calls'[c].loadRes.duration, NoError,
                                     calls'[c].loadRes.headers.status,
                                     calls'[c].loadRes.headers.maxAge,
                                     data'[calls[c].key]))
         /\ data'[calls[c].key].body = calls'[c].loadRes.data.body
         /\ calls[c].options.reload <=> calls'[c].reloads > 0]_vars

SuccessResolvesWithStoredWitness ==
  \E c \in CallIds :
    /\ Fetched(c) /\ calls[c].load = "resolved"
    /\ ~calls[c].options.staleWhileRevalidate /\ calls[c].options.reload
    /\ calls[c].age = "past"
    /\ calls[c].promise.state = "resolved"
    /\ calls[c].promise.value.duration = calls[c].loadRes.duration
    /\ calls[c].promise.value.data = data[calls[c].key]
    /\ calls[c].reloads = 1

\* C11: when a load fails, the failure schedules a background reload iff
\* options.reload was set and the failure's status is >= 500.
ReloadOnServerErrorOnly ==
  [][\A c \in CallIds :
       (LoadFails(c) /\ Fetched(c)) =>
         /\ calls'[c].reloads \in {calls[c].reloads, calls[c].reloads + 1}
         /\ calls'[c].reloads = calls[c].reloads + 1
              <=> (calls[c].options.reload /\ calls'[c].loadErr.status >= 500)]_vars

ReloadOnServerErrorOnlyWitness ==
  \E c \in CallIds :
    /\ Fetched(c) /\ calls[c].load = "rejected"
    /\ calls[c].options.reload /\ ~calls[c].options.staleWhileRevalidate
    /\ calls[c].loadErr.status = 404
    /\ calls[c].reloads = 0

\* C12 (as claimed): after the load of a call has been aborted the promise
\* returned by fetch is pending, and stays so.
AbortLeavesPending ==
  \A c \in CallIds :
    (Fetched(c) /\ calls[c].load = "aborted") => calls[c].promise.state = "pending"

\* C12 (amended): an aborted load neither resolves nor rejects the promise
\* returned by fetch: it is pending, unless a value existed and
\* staleWhileRevalidate is set, when it was resolved with the stale value
\* before the abort and stays so.
AbortSettlesNothing ==
  \A c \in CallIds :
    (Fetched(c) /\ calls[c].load = "aborted") =>
      /\ calls[c].promiseToLoad = Pending
      /\ calls[c].promise =
           IF Truthy(calls[c].value) /\ calls[c].options.staleWhileRevalidate
           THEN Resolved(Response(0, NoError, StatusOk, NoMaxAge, calls[c].value))
           ELSE Pending

AbortSettlesNothingWitness ==
  \E c \in CallIds :
    /\ Fetched(c) /\ calls[c].load = "aborted"
    /\ ~calls[c].options.staleWhileRevalidate
    /\ calls[c].promise.state = "pending"

\* the step in which remove(path) ran on a writable store
Removes(path) ==
  /\ out'.op = "remove" /\ out'.path = path
  /\ writable

\* C13 (as claimed): where the parent contains the terminal key, remove(path)
\* leaves the tree as set(path, undefined) does, and get(path) is undefined
\* afterwards.
RemoveIsSetUndefined ==
  [][\A path \in Paths :
       (Removes(path) /\ removeFinds(tree, path) = "yes") =>
         /\ tree' = Write(tree, path, UndefinedLeaf)
         /\ getNode(tree', path).kind = "undefined"]_vars

\* C14 (as claimed): where the terminal key is absent (the parent is a mapping
\* without it, is absent, or is a scalar), remove(path) throws nothing and
\* leaves the tree as it is.
RemoveAbsentIsNoOp ==
  [][\A path \in Paths :
       (Removes(path) /\ Lookup(tree, path).kind = "absent") =>
         /\ out'.threw = "none"
         /\ tree' = tree]_vars

\* the step in which set(path, value) ran
Sets(path) == out'.op = "set" /\ out'.path = path

\* C15: while the store is not writable, set(path, value) with a non-empty path
\* throws and leaves the tree as it is; set without a path throws nothing and
\* leaves the tree as it is, writable or not.
SetThrowsWhenNotWritable ==
  [][\A path \in SetPaths :
       Sets(path) =>
         /\ (~writable /\ path # <<>>) => (out'.threw = "NotWritable" /\ tree' = tree)
         /\ path = <<>> => (out'.threw = "none" /\ tree' = tree)]_vars

SetThrowsWhenNotWritableWitness ==
  /\ ~writable
  /\ out.op = "set" /\ out.path = <<"a", "b">> /\ out.threw = "NotWritable"

\* the cache is empty whenever the store is writable, holds at
\* most one entry for a key and a referenceDepth, and every entry is the value
\* get computes from the tree as it is now.
CacheOnlyWhenNotWritable ==
  /\ writable => cache = {}
  /\ \A e \in cache :
       /\ Cached(cache, e.path, e.depth) = {e}
       /\ getValue(tree, e.path, e.depth) = [value |-> e.value, threw |-> "none"]

Marks(hs, path) ==
  LET sel == SelectSeq(hs, LAMBDA h : h.pattern = "" \/ h.pattern \in {path[i] : i \in 1 .. Len(path)})
  IN [i \in 1 .. Len(sel) |-> sel[i].id]

\* C17: set(K, v) stores at K the value v with the mark of every registered
\* handler that has no pattern or whose pattern matches K, each once and in the
\* order of registration; unuseHandler leaves no handler of the function, or of
\* the batch, registered.
HandlersRunOnceInOrder ==
  [][/\ \A path \in HandledPaths, leaf \in HandledValues :
          (Sets(path) /\ out'.value = Lift(leaf)) =>
            Lookup(tree', path) = Lift(Leaf("string", leaf.val \o Marks(handlers, path)))
     /\ \A id \in HandlerIds :
          (out'.op = "unuseHandler" /\ out'.path = <<id>>) => ~Registered(handlers', id)
     /\ (out'.op = "unuseHandler" /\ out'.path = <<"batch">>) =>
          \A i \in 1 .. Len(Batch) : ~Registered(handlers', Batch[i].id)]_vars

HandlersRunOnceInOrderWitness ==
  /\ out.op = "set" /\ out.path = <<"a", "b">>
  /\ Lookup(tree, <<"a", "b">>) = Lift(Leaf("string", <<"y", "g", "p", "q">>))
  /\ ~Registered(handlers, "f")

\* C18: trigger(name, arg) with no action registered under name rejects with
\* 'action <name> not registered' and leaves the tree as it is; with one
\* registered it runs the function with the store and arg and resolves with
\* what the function returns; unregisterAction(name) leaves none registered.
TriggerNeedsRegistered ==
  [][\A name \in ActionNames :
       /\ (out'.op = "trigger" /\ out'.path = <<name>>) =>
            IF name \notin actions
            THEN /\ out'.threw = "rejected"
                 /\ out'.value.val = <<"action", name, "not registered">>
                 /\ tree' = tree
            ELSE \E arg \in Args :
                   /\ out'.threw = "none"
                   /\ out'.value = Lift(arg)
                   /\ tree' = Write(tree, <<name>>, arg)
       /\ (out'.op = "unregisterAction" /\ out'.path = <<name>>) => name \notin actions']_vars

TriggerNeedsRegisteredWitness ==
  /\ out.op = "trigger" /\ out.path = <<"a">> /\ out.threw = "rejected"
  /\ tree["a"] = Lift(Leaf("string", <<"arg">>))
  /\ "a" \notin actions

\* no segment of the path addresses a reference
NoReference(t, path) ==
  \A i \in 1 .. Len(path) : Lookup(t, SubSeq(path, 1, i)).kind # "ref"

\* C19: a resolution under way ends, with a path or with the cyclic-reference
\* error; the path it ends with addresses no reference, the error comes after
\* MaxResolve replacements and never sooner, and a key addressing no reference
\* is returned as it is.
ResolveTerminates ==
  /\ (resolving.state = "running") ~> (resolving.state \in {"done", "cyclic"})
  /\ [](/\ resolving.n <= MaxResolve
        /\ resolving.state = "done" =>
             /\ NoReference(tree, resolving.path)
             /\ out.value.val = resolving.path
        /\ resolving.state = "cyclic" =>
             /\ resolving.n = MaxResolve
             /\ out.threw = "CyclicReference"
        /\ (resolving.state \in {"done", "cyclic"} /\ NoReference(tree, resolving.key)) =>
             (resolving.state = "done" /\ resolving.path = resolving.key))

ResolveTerminatesWitness ==
  /\ resolving.state = "cyclic"
  /\ resolving.key = <<"a", "b">>
  /\ tree["a"] = Lift(Leaf("ref", <<"b">>))
  /\ tree["b"] = Lift(Leaf("ref", <<"a">>))

\* nothing is left in the store
Cleared ==
  /\ data = [key \in Keys |-> Undefined]
  /\ tree = [k \in TreeKeys |-> AbsentNode]
  /\ cache = {}
  /\ handlers = <<>>
  /\ actions = {}
  /\ timers = {}

Calls(c) == calls[c].load # "pending" /\ calls'[c] # calls[c]
\* the step in which the load of call c settles
LoadSettles(c) == calls[c].load = "pending" /\ calls'[c].load \in {"resolved", "rejected"}

\* C21: a fetch of a key that is missing, or whose value has expired, starts a
\* load of its own whatever loads are in flight, for the same key too; the
\* settlement of a load changes the value of no key but its own and the record
\* of no call but its own, and what a fetch reads and decides rests on the
\* value at its own key alone.
FetchesNotDeduplicated ==
  [][\A c \in ConcurrentIds :
       /\ Calls(c) =>
            /\ calls'[c].value = data[calls'[c].key]
            /\ (~Truthy(calls'[c].value) \/ calls'[c].age = "past") =>
                 calls'[c].load = "pending"
            /\ \A d \in ConcurrentIds \ {c} : calls'[d] = calls[d]
       /\ LoadSettles(c) =>
            /\ \A key \in Keys \ {calls[c].key} : data'[key] = data[key]
            /\ \A d \in ConcurrentIds \ {c} : calls'[d] = calls[d]]_vars

FetchesNotDeduplicatedWitness ==
  /\ calls[1].key = "foo" /\ calls[2].key = "foo"
  /\ calls[1].load = "pending" /\ calls[2].load = "pending"
  /\ calls[1].age = "past"

\* C22 (as claimed): a fetch call schedules the reload at most once, on every
\* path through fetch.
ReloadAtMostOnce ==
  \A c \in CallIds : Fetched(c) => calls[c].reloads <= 1

\* the paths that neither lead to path nor lie under it
Outside(path) ==
  {other \in Paths : other[1] # path[1] \/ (Len(other) = 2 /\ Len(path) = 2 /\ other # path)}

\* what get(path) answers: undefined for a key that is absent
Read(t, path) ==
  IF Lookup(t, path).kind = "absent" THEN Lift(UndefinedLeaf) ELSE Lookup(t, path)

\* C23 (as claimed): remove of a nested path whose parent contains the terminal
\* key leaves the value at every path outside it as it was, the top-level key
\* named like the terminal segment included.
RemoveChangesOnlyPath ==
  [][\A path \in Paths :
       (Removes(path) /\ Len(path) = 2 /\ removeFinds(tree, path) = "yes") =>
         \A other \in Outside(path) : Read(tree', other) = Read(tree, other)]_vars

\* C24: the promise a fetch returns settles once: settled, it is the same
\* after every step but the one that makes a new call under its id; with the
\* load settled the promise is settled; and a call is resolved at once exactly
\* when it starts no load or has a value and options.staleWhileRevalidate,
\* whatever the load does later.
PromiseSettlesOnce ==
  [][\A c \in CallIds :
       /\ calls[c].load \in {"resolved", "rejected"} => Settled(c)
       /\ LoadSettles(c) =>
            /\ calls'[c].promise.state \in {"resolved", "rejected"}
            /\ Settled(c) => calls'[c].promise = calls[c].promise
       /\ (Settled(c) /\ calls'[c].promise # calls[c].promise) => (Done(c) /\ Calls(c))
       /\ (Calls(c) /\ calls'[c].key # NoKey /\ calls'[c].url # NoUrl) =>
            (calls'[c].promise.state = "resolved"
               <=> \/ calls'[c].load = "none"
                   \/ Truthy(calls'[c].value) /\ calls'[c].options.staleWhileRevalidate)]_vars

PromiseSettlesOnceWitness ==
  \E c \in CallIds :
    /\ Fetched(c)
    /\ calls[c].load = "rejected"
    /\ calls[c].options.staleWhileRevalidate
    /\ Truthy(calls[c].value)
    /\ calls[c].promise = Resolved(staleResponse(calls[c].value))
    /\ calls[c].promiseToLoad.state = "resolved"

====
